---- MODULE Spec2Model ----
(***************************************************************************)
(* Model of scripts/retracediff.py: two retrace children are run side by   *)
(* side, their snapshot streams are read in lockstep, every pair of        *)
(* snapshots is scored, and divergent frames trigger image dumps and a     *)
(* state diff.  The main loop is modelled statement group by statement     *)
(* group (pc), the children and the external Comparer are the environment. *)
(***************************************************************************)
EXTENDS Integers, Sequences, FiniteSets, TLC

\* ---------------------------------------------------------------- bounds
\* Longest snapshot stream a child emits.
MaxFrames == 4
\* Longest stream read_pnm is applied to on its own, in snapshots.
MaxPnmFrames == 2

\* --------------------------------------------------- program constants
\* optparse default of --threshold
threshold == 12
\* field width of '%010u'
PadWidth == 10

Sides == {"ref", "src"}

\* Largest call number a child tags a snapshot with.
MaxCallNo == 13

\* Call numbers a child may tag a snapshot with: 0 and a range of two-digit
\* numbers, so that formatting and parsing see texts of both lengths.
CallNos == {0} \cup (10..MaxCallNo)

\* Precision values the external Comparer may return: below, equal to and
\* above the threshold.
Precisions == {threshold - 7, threshold, threshold + 8}

\* Values of --diff-prefix: disabled, and the default.
Prefixes == {"", "."}

NoSnapshot == [maximum |-> 255, complete |-> TRUE]

NoError == [kind |-> "none", at |-> "none", args |-> <<>>]

\* ------------------------------------------------------ text conversions
DigitChars == <<"0", "1", "2", "3", "4", "5", "6", "7", "8", "9">>

Whitespace == {" ", "\n"}

\* '%u' % n
RECURSIVE FormatU(_)
FormatU(n) ==
    IF n < 10 THEN <<DigitChars[n + 1]>>
    ELSE FormatU(n \div 10) \o <<DigitChars[(n % 10) + 1]>>

\* str.strip()
RECURSIVE LStrip(_)
LStrip(s) ==
    IF s # <<>> /\ Head(s) \in Whitespace THEN LStrip(Tail(s)) ELSE s

RECURSIVE RStrip(_)
RStrip(s) ==
    IF s # <<>> /\ s[Len(s)] \in Whitespace
    THEN RStrip(SubSeq(s, 1, Len(s) - 1))
    ELSE s

Strip(s) == RStrip(LStrip(s))

DigitValue(c) == CHOOSE d \in 0..9 : DigitChars[d + 1] = c

IsNumeral(s) ==
    /\ s # <<>>
    /\ \A i \in 1..Len(s) : \E d \in 0..9 : DigitChars[d + 1] = s[i]

\* int(s) for a text of decimal digits
RECURSIVE ParseInt(_)
ParseInt(s) ==
    IF s = <<>> THEN 0
    ELSE 10 * ParseInt(SubSeq(s, 1, Len(s) - 1)) + DigitValue(s[Len(s)])

\* Variant: '%u' % n, no zero padding.
Pad10_Unpadded(n) == FormatU(n)

\* '%010u' % n
RECURSIVE ZeroFill(_, _)
ZeroFill(s, w) == IF Len(s) >= w THEN s ELSE ZeroFill(<<"0">> \o s, w)

Pad10(n) == ZeroFill(FormatU(n), PadWidth)

\* The comment read_pnm returns for a snapshot the child tagged '#<n>'.
CommentOf(n) == FormatU(n) \o <<"\n">>

\* The three files written for a divergent frame.
ImageExts == <<".ref.png", ".src.png", ".diff.png">>

ImageFile(prefix, n, k) == [dir |-> prefix, base |-> Pad10(n), ext |-> ImageExts[k]]

\* ------------------------------------------------------------- read_pnm
\* stream.readline(): the text up to and including the first newline, or
\* all that is left; `rest' is what stays in the stream.
ReadLine(s) ==
    IF \E i \in 1..Len(s) : s[i] = "\n"
    THEN LET n == CHOOSE i \in 1..Len(s) :
                     /\ s[i] = "\n"
                     /\ \A j \in 1..(i - 1) : s[j] # "\n"
         IN [line |-> SubSeq(s, 1, n), rest |-> SubSeq(s, n + 1, Len(s))]
    ELSE [line |-> s, rest |-> <<>>]

\* str.split(): the maximal runs of non-whitespace characters.
RECURSIVE Split(_)
Split(s) ==
    LET t == LStrip(s)
    IN IF t = <<>> THEN <<>>
       ELSE LET n == IF \E i \in 1..Len(t) : t[i] \in Whitespace
                     THEN (CHOOSE i \in 1..Len(t) :
                              /\ t[i] \in Whitespace
                              /\ \A j \in 1..(i - 1) : t[j] \notin Whitespace) - 1
                     ELSE Len(t)
            IN <<SubSeq(t, 1, n)>> \o Split(SubSeq(t, n + 1, Len(t)))

\* Variant: a magic line without its newline is taken for the end of the
\* stream.
MagicIsEof_Lenient(magic) == magic = <<>> \/ magic[Len(magic)] # "\n"

\* `if not magic'
MagicIsEof(magic) == magic = <<>>

\* Variant: one byte per pixel.
DataSize_OneChannel(width, height) == height * width

\* The byte count of stream.read(height * width * 3).
DataSize(width, height) == height * width * 3

\* while line.startswith('#'): comment += line[1:]; line = stream.readline()
\* Returns the comment, the first line that is no comment, and the rest.
RECURSIVE SkipComments(_, _, _)
SkipComments(comment, line, rest) ==
    IF line # <<>> /\ Head(line) = "#"
    THEN LET nxt == ReadLine(rest)
         IN SkipComments(comment \o Tail(line), nxt.line, nxt.rest)
    ELSE [comment |-> comment, line |-> line, rest |-> rest]

\* Variant: every 8-bit maximum is accepted.
MaximumOk_UpTo255(maximum) == maximum <= 255

\* The condition of `assert maximum == 255'.
MaximumOk(maximum) == maximum = 255

PnmError(exc, at) == [kind |-> "error", exc |-> exc, at |-> at]

\* read_pnm(stream): end of stream, a failure, or a frame and what is left
\* of the stream.  Image.frombuffer raises ValueError when it gets fewer
\* bytes than the size needs.
ReadPnm(stream) ==
    LET m == ReadLine(stream)
    IN IF MagicIsEof(m.line) THEN [kind |-> "eof", rest |-> m.rest]
       ELSE IF RStrip(m.line) # <<"P", "6">> THEN PnmError("AssertionError", "magic")
       ELSE
       LET first == ReadLine(m.rest)
           c == SkipComments(<<>>, first.line, first.rest)
           size == Split(Strip(c.line))
       IN IF Len(size) # 2 \/ \E i \in 1..Len(size) : ~IsNumeral(size[i])
          THEN PnmError("ValueError", "size")
          ELSE
          LET width == ParseInt(size[1])
              height == ParseInt(size[2])
              x == ReadLine(c.rest)
          IN IF ~IsNumeral(Strip(x.line)) THEN PnmError("ValueError", "maximum")
             ELSE IF ~MaximumOk(ParseInt(Strip(x.line)))
             THEN PnmError("AssertionError", "maximum")
             ELSE
             LET n == DataSize(width, height)
                 data == SubSeq(x.rest, 1, IF n < Len(x.rest) THEN n ELSE Len(x.rest))
             IN IF Len(data) < width * height * 3
                THEN PnmError("ValueError", "frombuffer")
                ELSE [kind |-> "frame",
                      image |-> [width |-> width, height |-> height, data |-> data],
                      comment |-> c.comment,
                      rest |-> SubSeq(x.rest, Len(data) + 1, Len(x.rest))]

\* ------------------------------------------- what a retrace child writes
\* Bytes used for pixel data; they include the characters the header
\* parser reacts to.
PixelBytes == <<"\n", "#", "P", "6", "x">>

Pixels(n) == [i \in 1..n |-> PixelBytes[(i % Len(PixelBytes)) + 1]]

RECURSIVE CommentLines(_)
CommentLines(tags) ==
    IF tags = <<>> THEN <<>>
    ELSE <<"#">> \o Head(tags) \o <<"\n">> \o CommentLines(Tail(tags))

\* One snapshot as the child writes it: magic, comment lines, size,
\* maximum, pixel data.
EncodeFrame(f) ==
    <<"P", "6", "\n">> \o CommentLines(f.tags)
        \o FormatU(f.width) \o <<" ">> \o FormatU(f.height) \o <<"\n">>
        \o FormatU(f.maximum) \o <<"\n">>
        \o Pixels(f.width * f.height * 3)

RECURSIVE EncodeFrames(_)
EncodeFrames(fs) ==
    IF fs = <<>> THEN <<>> ELSE EncodeFrame(Head(fs)) \o EncodeFrames(Tail(fs))

VARIABLES
    pc,          \* position in main()
    diff_prefix, \* options.diff_prefix
    proc,        \* state of the two long-running children
    termCalls,   \* number of terminate() calls per child
    streamLen,   \* number of snapshots each child emits before closing
    consumed,    \* number of snapshots read from each child
    lastTag,     \* call number of the last snapshot each child emitted
    offered,     \* maximum and completeness of the last snapshot each
                 \* child wrote
    ref_comment, src_comment, call_no, precision,
    last_good, last_bad,
    stdout,      \* what was written to sys.stdout, in order
    flushed,     \* how many items of stdout have been flushed
    files,       \* image files written
    dumps,       \* dump_state invocations, in order
    dumpProcs,   \* state of the short-lived children dump_state launched
    diffCalls,   \* diff_state invocations, in order
    scored,      \* the frames scored so far
    tracked,     \* number of frames whose good/bad bookkeeping is done
    loopEnd,     \* how the while loop was left: end of a stream, or the
                 \* statement that raised
    error,       \* the exception propagating out of main(), if any
    pnFrames,    \* read_pnm alone: the snapshots the child wrote
    pnCut,       \* read_pnm alone: number of bytes written before the end
    pnStream,    \* read_pnm alone: what is left in the stream
    pnOut,       \* read_pnm alone: the (image, comment) pairs returned
    pnState,     \* read_pnm alone: reading, eof or failed
    pnError      \* read_pnm alone: the exception read_pnm raised

pnVars == <<pnFrames, pnCut, pnStream, pnOut, pnState, pnError>>

vars == <<pc, diff_prefix, proc, termCalls, streamLen, consumed, lastTag, offered,
          ref_comment, src_comment, call_no, precision, last_good, last_bad,
          stdout, flushed, files, dumps, dumpProcs, diffCalls, scored,
          tracked, loopEnd, error, pnVars>>

Init ==
    /\ pc = "launch_ref"
    /\ diff_prefix \in Prefixes
    /\ proc = [s \in Sides |-> "none"]
    /\ termCalls = [s \in Sides |-> 0]
    /\ streamLen \in [Sides -> 0..MaxFrames]
    /\ consumed = [s \in Sides |-> 0]
    /\ lastTag = [s \in Sides |-> -1]
    /\ offered = [s \in Sides |-> NoSnapshot]
    /\ ref_comment = <<>>
    /\ src_comment = <<>>
    /\ call_no = -1
    /\ precision = 0
    /\ last_good = -1
    /\ last_bad = -1
    /\ stdout = <<>>
    /\ flushed = 0
    /\ files = {}
    /\ dumps = <<>>
    /\ dumpProcs = <<>>
    /\ diffCalls = <<>>
    /\ scored = <<>>
    /\ tracked = 0
    /\ loopEnd = "running"
    /\ error = NoError
    /\ pnFrames = <<>>
    /\ pnCut = 0
    /\ pnStream = <<>>
    /\ pnOut = <<>>
    /\ pnState = "unused"
    /\ pnError = NoError

\* Positions inside the while loop of main().
LoopPcs == {"read_ref", "read_src", "score", "save", "check_last",
            "dump_ref_state", "load_ref_state", "wait_ref_state",
            "dump_src_state", "load_src_state", "wait_src_state",
            "render_diff", "set_bad", "set_good", "flush"}

frameVars == <<ref_comment, src_comment, call_no, precision>>
trackVars == <<last_good, last_bad, tracked>>
outVars == <<stdout, flushed, files, dumps, diffCalls, scored>>
envVars == <<streamLen, consumed, lastTag, offered>>
procVars == <<proc, termCalls, dumpProcs>>

Last(s) == s[Len(s)]

\* Control moves on without an exception.
Goto(to) ==
    /\ pc' = to
    /\ UNCHANGED <<loopEnd, error>>

\* An exception of the given kind is raised by the statement at `at' and
\* control moves to the enclosing finally clause (or out of main).  None of
\* the raise sites passes a message, so the exception carries no arguments.
Raise(kind, at, to) ==
    /\ error' = [kind |-> kind, at |-> at, args |-> <<>>]
    /\ loopEnd' = IF pc \in LoopPcs THEN at ELSE loopEnd
    /\ pc' = to

\* Setup.retrace(): Popen either starts the child or raises.
\* ref_proc = ref_setup.retrace(), outside every try block.
LaunchRef ==
    /\ pc = "launch_ref"
    /\ \/ /\ proc' = [proc EXCEPT !["ref"] = "running"]
          /\ Goto("launch_src")
       \/ /\ Raise("OSError", "retrace", "exit")
          /\ UNCHANGED proc
    /\ UNCHANGED <<diff_prefix, pnVars, termCalls, dumpProcs, envVars, frameVars,
                   trackVars, outVars>>

\* src_proc = src_setup.retrace(), inside the outer try block.
LaunchSrc ==
    /\ pc = "launch_src"
    /\ \/ /\ proc' = [proc EXCEPT !["src"] = "running"]
          /\ Goto("read_ref")
       \/ /\ Raise("OSError", "retrace", "term_ref")
          /\ UNCHANGED proc
    /\ UNCHANGED <<diff_prefix, pnVars, termCalls, dumpProcs, envVars, frameVars,
                   trackVars, outVars>>

\* A long-running child exits by itself (end of trace, or a crash).  main()
\* never polls its children, the only statement whose outcome depends on
\* the exit is terminate(); the exit is therefore taken at the latest
\* point, when control has reached a finally clause.
ChildExits ==
    /\ pc \in {"term_src", "term_ref"}
    /\ \E s \in Sides :
          /\ proc[s] = "running"
          /\ proc' = [proc EXCEPT ![s] = "exited"]
    /\ UNCHANGED <<pc, loopEnd, error, diff_prefix, pnVars, termCalls, dumpProcs,
                   envVars, frameVars, trackVars, outVars>>

\* The comments read_pnm can return for the next snapshot of child s: the
\* text of a call number larger than every one the child emitted before, or
\* the empty text when the snapshot has no comment line.
NextComments(s) ==
    {CommentOf(n) : n \in {m \in CallNos : m > lastTag[s]}} \cup {<<>>}

TagOf(comment, s) ==
    IF comment = <<>> THEN lastTag[s] ELSE ParseInt(Strip(comment))

\* Maximum sample values a child may declare.
Maxima == {255, 127}

\* The bytes of the next snapshot of a child: a 1x1 image with the given
\* comment and maximum, whole or with its last pixel byte missing because
\* the child's output ended there.
SnapshotBytes(comment, maximum, complete) ==
    LET bytes == EncodeFrame([tags |-> IF comment = <<>> THEN <<>>
                                       ELSE <<Strip(comment)>>,
                              width |-> 1, height |-> 1, maximum |-> maximum])
    IN IF complete THEN bytes ELSE SubSeq(bytes, 1, Len(bytes) - 1)

\* Variant: the end of the reference stream is only acted on after the
\* source stream has been read as well.
ReadRef_NoBreak ==
    /\ pc = "read_ref"
    /\ IF consumed["ref"] = streamLen["ref"]
       THEN /\ pc' = "read_src"
            /\ loopEnd' = "ref_eof"
            /\ UNCHANGED <<error, envVars, ref_comment>>
       ELSE /\ consumed' = [consumed EXCEPT !["ref"] = @ + 1]
            /\ UNCHANGED streamLen
            /\ \E c \in NextComments("ref"), m \in Maxima, whole \in BOOLEAN :
                  LET r == ReadPnm(SnapshotBytes(c, m, whole))
                  IN /\ offered' = [offered EXCEPT !["ref"] =
                                       [maximum |-> m, complete |-> whole]]
                     /\ IF r.kind = "frame"
                        THEN /\ ref_comment' = r.comment
                             /\ lastTag' = [lastTag EXCEPT !["ref"] =
                                               TagOf(r.comment, "ref")]
                             /\ Goto("read_src")
                        ELSE /\ Raise(r.exc, "read_pnm", "term_src")
                             /\ UNCHANGED <<lastTag, ref_comment>>
    /\ UNCHANGED <<diff_prefix, pnVars, procVars, src_comment, call_no, precision,
                   trackVars, outVars>>

\* ref_image, ref_comment = read_pnm(ref_proc.stdout); break on None.
ReadRef ==
    /\ pc = "read_ref"
    /\ IF consumed["ref"] = streamLen["ref"]
       THEN /\ pc' = "term_src"
            /\ loopEnd' = "ref_eof"
            /\ UNCHANGED <<error, envVars, ref_comment>>
       ELSE /\ consumed' = [consumed EXCEPT !["ref"] = @ + 1]
            /\ UNCHANGED streamLen
            /\ \E c \in NextComments("ref"), m \in Maxima, whole \in BOOLEAN :
                  LET r == ReadPnm(SnapshotBytes(c, m, whole))
                  IN /\ offered' = [offered EXCEPT !["ref"] =
                                       [maximum |-> m, complete |-> whole]]
                     /\ IF r.kind = "frame"
                        THEN /\ ref_comment' = r.comment
                             /\ lastTag' = [lastTag EXCEPT !["ref"] =
                                               TagOf(r.comment, "ref")]
                             /\ Goto("read_src")
                        ELSE /\ Raise(r.exc, "read_pnm", "term_src")
                             /\ UNCHANGED <<lastTag, ref_comment>>
    /\ UNCHANGED <<diff_prefix, pnVars, procVars, src_comment, call_no, precision,
                   trackVars, outVars>>

\* src_image, src_comment = read_pnm(src_proc.stdout); break on None.
ReadSrc ==
    /\ pc = "read_src"
    /\ IF consumed["src"] = streamLen["src"]
       THEN /\ pc' = "term_src"
            /\ loopEnd' = "src_eof"
            /\ UNCHANGED <<error, envVars, src_comment>>
       ELSE /\ consumed' = [consumed EXCEPT !["src"] = @ + 1]
            /\ UNCHANGED streamLen
            /\ \E c \in NextComments("src"), m \in Maxima, whole \in BOOLEAN :
                  LET r == ReadPnm(SnapshotBytes(c, m, whole))
                  IN /\ offered' = [offered EXCEPT !["src"] =
                                       [maximum |-> m, complete |-> whole]]
                     /\ IF r.kind = "frame"
                        THEN /\ src_comment' = r.comment
                             /\ lastTag' = [lastTag EXCEPT !["src"] =
                                               TagOf(r.comment, "src")]
                             /\ Goto("score")
                        ELSE /\ Raise(r.exc, "read_pnm", "term_src")
                             /\ UNCHANGED <<lastTag, src_comment>>
    /\ UNCHANGED <<diff_prefix, pnVars, procVars, ref_comment, call_no, precision,
                   trackVars, outVars>>

ScoreLine(n, p) == [type |-> "line", call_no |-> n, precision |-> p]

\* Variant: a score equal to the threshold counts as divergent.
AfterScore_NotStrict(p) ==
    IF p <= threshold
    THEN IF diff_prefix # "" THEN "save" ELSE "check_last"
    ELSE "set_good"

\* Variant: the state diff and last_bad are nested under the prefix test,
\* so an empty prefix skips the state diff.
AfterScore_Nested(p) ==
    IF p < threshold
    THEN IF diff_prefix # "" THEN "save" ELSE "set_bad"
    ELSE "set_good"

\* Where control goes after the score line is written.
AfterScore(p) ==
    IF p < threshold
    THEN IF diff_prefix # "" THEN "save" ELSE "check_last"
    ELSE "set_good"

\* Variant: only the lengths of the two comments are compared.
SyncOk_LengthOnly == Len(ref_comment) = Len(src_comment)

\* The condition of `assert ref_comment == src_comment'.
SyncOk == ref_comment = src_comment

\* assert ref_comment == src_comment; call_no = int(ref_comment.strip());
\* precision = Comparer(...).precision(); sys.stdout.write('%u %f\n' ...)
Score ==
    /\ pc = "score"
    /\ IF ~SyncOk
       THEN /\ Raise("AssertionError", "sync", "term_src")
            /\ UNCHANGED <<call_no, precision, stdout, scored>>
       ELSE IF ~IsNumeral(Strip(ref_comment))
       THEN /\ Raise("ValueError", "int", "term_src")
            /\ UNCHANGED <<call_no, precision, stdout, scored>>
       ELSE /\ call_no' = ParseInt(Strip(ref_comment))
            /\ \E p \in Precisions :
                  /\ precision' = p
                  /\ stdout' = Append(stdout, ScoreLine(call_no', p))
                  /\ scored' = Append(scored, [call_no |-> call_no', precision |-> p])
                  /\ Goto(AfterScore(p))
    /\ UNCHANGED <<diff_prefix, pnVars, procVars, envVars, ref_comment, src_comment,
                   trackVars, flushed, files, dumps, diffCalls>>

\* The image files of the first k saves of a divergent frame.
Saved(k) == {ImageFile(diff_prefix, call_no, i) : i \in 1..k}

\* if options.diff_prefix: makedirs, ref_image.save, src_image.save,
\* comparer.write_diff.  Any of them may fail with an I/O error.
SaveImages ==
    /\ pc = "save"
    /\ \/ /\ files' = files \cup Saved(3)
          /\ Goto("check_last")
       \/ \E k \in 0..2 :
             /\ files' = files \cup Saved(k)
             /\ Raise("IOError", "save", "term_src")
    /\ UNCHANGED <<diff_prefix, pnVars, procVars, envVars, frameVars, trackVars,
                   stdout, flushed, dumps, diffCalls, scored>>

\* Variant: the comparison is not strict.
DiffWarranted_NotStrict == last_bad <= last_good

\* Variant: a state diff for every bad frame.
DiffWarranted_Always == TRUE

\* The condition of `if last_bad < last_good'.
DiffWarranted == last_bad < last_good

\* Variant: the dumps are taken from the reference setup.
DiffStateArgs_RefSetup ==
    [setup |-> "ref", ref_call_no |-> last_good, src_call_no |-> call_no]

\* The arguments of diff_state(src_setup, last_good, call_no).
DiffStateArgs ==
    [setup |-> "src", ref_call_no |-> last_good, src_call_no |-> call_no]

\* if last_bad < last_good: diff_state(src_setup, last_good, call_no)
CheckLast ==
    /\ pc = "check_last"
    /\ IF DiffWarranted
       THEN /\ diffCalls' = Append(diffCalls, DiffStateArgs)
            /\ Goto("dump_ref_state")
       ELSE /\ Goto("set_bad")
            /\ UNCHANGED diffCalls
    /\ UNCHANGED <<diff_prefix, pnVars, procVars, envVars, frameVars, trackVars,
                   stdout, flushed, files, dumps, scored>>

\* Setup.dump_state(call_no), Popen: a short-lived child is launched, or
\* Popen raises.
DumpState(setup, n, to) ==
    /\ dumps' = Append(dumps, [setup |-> setup, call_no |-> n])
    /\ \/ /\ dumpProcs' = Append(dumpProcs, "running")
          /\ Goto(to)
       \/ /\ Raise("OSError", "dump_state", "term_src")
          /\ UNCHANGED dumpProcs

\* Setup.dump_state, state = jsondiff.load(p.stdout): the output of the
\* child is read to its end, so the call returns only once the child has
\* closed its output; the text may fail to parse.
LoadState(to) ==
    /\ Last(dumpProcs) \in {"closed", "exited"}
    /\ \/ Goto(to)
       \/ Raise("ValueError", "dump_state", "term_src")

\* Variant: dump_state returns the state without p.wait().
WaitState_NoWait(to) == Goto(to)

\* Setup.dump_state, p.wait(); return state: blocks until the child exited.
WaitState(to) ==
    /\ Last(dumpProcs) = "exited"
    /\ Goto(to)

\* A short-lived dump child closes its output.
DumpChildCloses ==
    /\ \E i \in 1..Len(dumpProcs) :
          /\ dumpProcs[i] = "running"
          /\ dumpProcs' = [dumpProcs EXCEPT ![i] = "closed"]
    /\ UNCHANGED <<pc, loopEnd, error, diff_prefix, pnVars, proc, termCalls, envVars,
                   frameVars, trackVars, outVars>>

\* A short-lived dump child exits.
DumpChildExits ==
    /\ \E i \in 1..Len(dumpProcs) :
          /\ dumpProcs[i] = "closed"
          /\ dumpProcs' = [dumpProcs EXCEPT ![i] = "exited"]
    /\ UNCHANGED <<pc, loopEnd, error, diff_prefix, pnVars, proc, termCalls, envVars,
                   frameVars, trackVars, outVars>>

dumpUnchanged == <<diff_prefix, pnVars, proc, termCalls, envVars, frameVars, trackVars,
                   stdout, flushed, files, diffCalls, scored>>

\* ref_state = setup.dump_state(ref_call_no)
DumpRefState ==
    /\ pc = "dump_ref_state"
    /\ DumpState(Last(diffCalls).setup, Last(diffCalls).ref_call_no, "load_ref_state")
    /\ UNCHANGED dumpUnchanged

LoadRefState ==
    /\ pc = "load_ref_state"
    /\ LoadState("wait_ref_state")
    /\ UNCHANGED <<dumpUnchanged, dumps, dumpProcs>>

WaitRefState ==
    /\ pc = "wait_ref_state"
    /\ WaitState("dump_src_state")
    /\ UNCHANGED <<dumpUnchanged, dumps, dumpProcs>>

\* src_state = setup.dump_state(src_call_no)
DumpSrcState ==
    /\ pc = "dump_src_state"
    /\ DumpState(Last(diffCalls).setup, Last(diffCalls).src_call_no, "load_src_state")
    /\ UNCHANGED dumpUnchanged

LoadSrcState ==
    /\ pc = "load_src_state"
    /\ LoadState("wait_src_state")
    /\ UNCHANGED <<dumpUnchanged, dumps, dumpProcs>>

WaitSrcState ==
    /\ pc = "wait_src_state"
    /\ WaitState("render_diff")
    /\ UNCHANGED <<dumpUnchanged, dumps, dumpProcs>>

\* sys.stdout.flush(); Differ(sys.stdout).visit(ref_state, src_state);
\* sys.stdout.write('\n')
RenderDiff ==
    /\ pc = "render_diff"
    /\ flushed' = Len(stdout)
    /\ stdout' = Append(stdout, [type |-> "diff",
                                 ref_state |-> dumps[Len(dumps) - 1],
                                 src_state |-> dumps[Len(dumps)]])
    /\ Goto("set_bad")
    /\ UNCHANGED <<diff_prefix, pnVars, procVars, envVars, frameVars, trackVars,
                   files, dumps, diffCalls, scored>>

\* Variant: last_bad is only set when a state diff was made for the frame.
SetLastBad_OnlyWithDiff ==
    /\ pc = "set_bad"
    /\ last_bad' = IF DiffWarranted THEN call_no ELSE last_bad
    /\ tracked' = tracked + 1
    /\ Goto("flush")
    /\ UNCHANGED <<diff_prefix, pnVars, procVars, envVars, frameVars, last_good, outVars>>

\* last_bad = call_no
SetLastBad ==
    /\ pc = "set_bad"
    /\ last_bad' = call_no
    /\ tracked' = tracked + 1
    /\ Goto("flush")
    /\ UNCHANGED <<diff_prefix, pnVars, procVars, envVars, frameVars, last_good, outVars>>

\* last_good = call_no
SetLastGood ==
    /\ pc = "set_good"
    /\ last_good' = call_no
    /\ tracked' = tracked + 1
    /\ Goto("flush")
    /\ UNCHANGED <<diff_prefix, pnVars, procVars, envVars, frameVars, last_bad, outVars>>

\* Variant: the loop comes back to the source read, keeping the reference
\* frame of the previous iteration.
FlushStdout_SkipRef ==
    /\ pc = "flush"
    /\ flushed' = Len(stdout)
    /\ Goto("read_src")
    /\ UNCHANGED <<diff_prefix, pnVars, procVars, envVars, frameVars, trackVars,
                   stdout, files, dumps, diffCalls, scored>>

\* Variant: the loop body ends without flushing.
FlushStdout_Missing ==
    /\ pc = "flush"
    /\ Goto("read_ref")
    /\ UNCHANGED <<diff_prefix, pnVars, procVars, envVars, frameVars, trackVars, outVars>>

\* sys.stdout.flush() at the end of the loop body
FlushStdout ==
    /\ pc = "flush"
    /\ flushed' = Len(stdout)
    /\ Goto("read_ref")
    /\ UNCHANGED <<diff_prefix, pnVars, procVars, envVars, frameVars, trackVars,
                   stdout, files, dumps, diffCalls, scored>>

\* Popen.terminate() on child s.  Signalling a running child ends it.  For
\* a child that has already exited the outcome depends on the platform:
\* the call is a no-op or it raises OSError.
Terminate(s, to) ==
    /\ termCalls' = [termCalls EXCEPT ![s] = @ + 1]
    /\ IF proc[s] = "running"
       THEN /\ proc' = [proc EXCEPT ![s] = "killed"]
            /\ Goto(to)
       ELSE /\ UNCHANGED proc
            /\ \/ Goto(to)
               \/ Raise("OSError", IF s = "src" THEN "src_proc.terminate"
                                               ELSE "ref_proc.terminate", to)

\* Variant: a single try block, so a failing src_proc.terminate() leaves
\* main() at once.
TerminateSrc_SingleTry ==
    /\ pc = "term_src"
    /\ termCalls' = [termCalls EXCEPT !["src"] = @ + 1]
    /\ IF proc["src"] = "running"
       THEN /\ proc' = [proc EXCEPT !["src"] = "killed"]
            /\ Goto("term_ref")
       ELSE /\ UNCHANGED proc
            /\ \/ Goto("term_ref")
               \/ Raise("OSError", "src_proc.terminate", "exit")
    /\ UNCHANGED <<diff_prefix, pnVars, dumpProcs, envVars, frameVars, trackVars, outVars>>

\* inner finally: src_proc.terminate()
TerminateSrc ==
    /\ pc = "term_src"
    /\ Terminate("src", "term_ref")
    /\ UNCHANGED <<diff_prefix, pnVars, dumpProcs, envVars, frameVars, trackVars, outVars>>

\* outer finally: ref_proc.terminate()
TerminateRef ==
    /\ pc = "term_ref"
    /\ Terminate("ref", "exit")
    /\ UNCHANGED <<diff_prefix, pnVars, dumpProcs, envVars, frameVars, trackVars, outVars>>

Next ==
    \/ LaunchRef
    \/ LaunchSrc
    \/ ChildExits
    \/ ReadRef
    \/ ReadSrc
    \/ Score
    \/ SaveImages
    \/ CheckLast
    \/ DumpRefState
    \/ LoadRefState
    \/ WaitRefState
    \/ DumpSrcState
    \/ LoadSrcState
    \/ WaitSrcState
    \/ DumpChildCloses
    \/ DumpChildExits
    \/ RenderDiff
    \/ SetLastBad
    \/ SetLastGood
    \/ FlushStdout
    \/ TerminateSrc
    \/ TerminateRef

Spec == Init /\ [][Next]_vars

\* ------------------------------------------------ read_pnm on one stream
\* The snapshots a child may write: no, one or two comment lines, three
\* image sizes, and a maximum sample value that is 255 or not.
PnmFrames ==
    [tags : {<<>>, <<<<"1", "1">>>>, <<<<"7">>, <<"8">>>>},
     width : {1, 2}, height : {1, 2}, maximum : {255, 127}]

SeqsUpTo(S, n) == UNION {[1..k -> S] : k \in 0..n}

mainVars == <<pc, diff_prefix, proc, termCalls, streamLen, consumed, lastTag, offered,
              ref_comment, src_comment, call_no, precision, last_good,
              last_bad, stdout, flushed, files, dumps, dumpProcs, diffCalls,
              scored, tracked, loopEnd, error>>

\* The child wrote the snapshots pnFrames and its output ended after pnCut
\* bytes; main() is not running.
PnmInit ==
    /\ pnFrames \in SeqsUpTo(PnmFrames, MaxPnmFrames)
    /\ \A i \in 1..Len(pnFrames) : pnFrames[i].width * pnFrames[i].height < 4
    /\ pnCut \in 0..Len(EncodeFrames(pnFrames))
    /\ pnStream = SubSeq(EncodeFrames(pnFrames), 1, pnCut)
    /\ pnOut = <<>>
    /\ pnState = "reading"
    /\ pnError = NoError
    /\ pc = "read_pnm"
    /\ diff_prefix = "."
    /\ proc = [s \in Sides |-> "none"]
    /\ termCalls = [s \in Sides |-> 0]
    /\ streamLen = [s \in Sides |-> 0]
    /\ consumed = [s \in Sides |-> 0]
    /\ lastTag = [s \in Sides |-> -1]
    /\ offered = [s \in Sides |-> NoSnapshot]
    /\ ref_comment = <<>>
    /\ src_comment = <<>>
    /\ call_no = -1
    /\ precision = 0
    /\ last_good = -1
    /\ last_bad = -1
    /\ stdout = <<>>
    /\ flushed = 0
    /\ files = {}
    /\ dumps = <<>>
    /\ dumpProcs = <<>>
    /\ diffCalls = <<>>
    /\ scored = <<>>
    /\ tracked = 0
    /\ loopEnd = "running"
    /\ error = NoError

\* read_pnm returns an image and its comment.
PnmFrame ==
    /\ pnState = "reading"
    /\ LET r == ReadPnm(pnStream)
       IN /\ r.kind = "frame"
          /\ pnOut' = Append(pnOut, [image |-> r.image, comment |-> r.comment])
          /\ pnStream' = r.rest
    /\ UNCHANGED <<mainVars, pnFrames, pnCut, pnState, pnError>>

\* read_pnm returns None, None.
PnmEof ==
    /\ pnState = "reading"
    /\ LET r == ReadPnm(pnStream)
       IN /\ r.kind = "eof"
          /\ pnState' = "eof"
          /\ pnStream' = r.rest
    /\ UNCHANGED <<mainVars, pnFrames, pnCut, pnOut, pnError>>

\* read_pnm raises.
PnmFail ==
    /\ pnState = "reading"
    /\ LET r == ReadPnm(pnStream)
       IN /\ r.kind = "error"
          /\ pnState' = "failed"
          /\ pnError' = [kind |-> r.exc, at |-> r.at, args |-> <<>>]
    /\ UNCHANGED <<mainVars, pnFrames, pnCut, pnStream, pnOut>>

PnmNext == PnmFrame \/ PnmEof \/ PnmFail

SpecPnm == PnmInit /\ [][PnmNext]_vars

\* ------------------------------------------------------------ properties
IsBad(f) == f.precision < threshold

Increasing(s) == \A i \in 1..(Len(s) - 1) : s[i].call_no < s[i + 1].call_no

\* The frame bookkeeping of every scored frame is complete.
AllTracked == tracked = Len(scored)

\* Positions that start a maximal run of bad frames.
RunStarts(s) == {i \in 1..Len(s) : IsBad(s[i]) /\ (i = 1 \/ ~IsBad(s[i - 1]))}

\* Positions that start a maximal run of bad frames right after a good frame.
RunStartsAfterGood(s) == {i \in RunStarts(s) : i > 1}

\* C1 (as stated): the number of diff_state calls equals the number of
\* maximal runs of bad frames, wherever the run starts.
C1_OneDiffPerRun ==
    (AllTracked /\ Increasing(scored))
        => Len(diffCalls) = Cardinality(RunStarts(scored))

\* C1 (amended): the number of diff_state calls equals the number of maximal
\* runs of bad frames that follow a good frame; a run that starts at the
\* first scored frame gets no state diff.
C1_OneDiffPerRunAfterGood ==
    (AllTracked /\ Increasing(scored))
        => Len(diffCalls) = Cardinality(RunStartsAfterGood(scored))

\* A leading bad frame, a good frame, then a run of two bad frames: one call.
C1_Witness ==
    /\ AllTracked
    /\ Len(scored) = 4
    /\ IsBad(scored[1]) /\ ~IsBad(scored[2]) /\ IsBad(scored[3]) /\ IsBad(scored[4])
    /\ Len(diffCalls) = 1

\* The (good, bad) pairs of call numbers at the starts of bad runs, in order.
RECURSIVE ExpectedDiffs(_)
ExpectedDiffs(s) ==
    IF Len(s) < 2 THEN <<>>
    ELSE LET n == Len(s)
             init == ExpectedDiffs(SubSeq(s, 1, n - 1))
         IN IF IsBad(s[n]) /\ ~IsBad(s[n - 1])
            THEN Append(init, <<s[n - 1].call_no, s[n].call_no>>)
            ELSE init

DiffPairs == [k \in 1..Len(diffCalls) |->
                <<diffCalls[k].ref_call_no, diffCalls[k].src_call_no>>]

\* C2: every diff_state call is for (g, c) with c the first bad frame of a
\* bad run and g the good frame scored immediately before it, in stream
\* order; once a frame is fully processed the calls are exactly those pairs.
C2_DiffAtTransition ==
    /\ \A k \in 1..Len(diffCalls) :
          \E i \in 2..Len(scored) :
             /\ scored[i].call_no = diffCalls[k].src_call_no
             /\ IsBad(scored[i])
             /\ scored[i - 1].call_no = diffCalls[k].ref_call_no
             /\ ~IsBad(scored[i - 1])
    /\ \A k \in 1..(Len(diffCalls) - 1) :
          diffCalls[k].src_call_no < diffCalls[k + 1].ref_call_no
    /\ AllTracked => DiffPairs = ExpectedDiffs(scored)

\* Good, bad, good, bad at calls 10, 11, 12, 13: calls (10,11) then (12,13).
C2_Witness ==
    /\ AllTracked
    /\ [i \in 1..Len(scored) |-> scored[i].call_no] = <<10, 11, 12, 13>>
    /\ DiffPairs = <<<<10, 11>>, <<12, 13>>>>

HasIndex(c) == IsNumeral(Strip(c))

IndexOf(c) == ParseInt(Strip(c))

\* The two frames held by the loop carry the same call index.
SameIndex ==
    /\ HasIndex(ref_comment)
    /\ HasIndex(src_comment)
    /\ IndexOf(ref_comment) = IndexOf(src_comment)

\* The two frames held by the loop carry different call indices.
IndexMismatch ==
    /\ HasIndex(ref_comment)
    /\ HasIndex(src_comment)
    /\ IndexOf(ref_comment) # IndexOf(src_comment)

IsLine(x) == x.type = "line"

IsDiff(x) == x.type = "diff"

Lines(out) == SelectSeq(out, IsLine)

\* C3: a pair is scored exactly when both call indices are equal; a pair
\* with different call indices raises the desync assertion, and when it is
\* raised every earlier pair has been scored and reported and the
\* mismatching pair has no score line.
C3_DesyncAtFirstMismatch ==
    /\ [](loopEnd = "sync" =>
            /\ ~SameIndex
            /\ consumed["ref"] = consumed["src"]
            /\ Len(scored) = consumed["src"] - 1
            /\ Len(Lines(stdout)) = Len(scored))
    /\ [][(pc = "score" /\ pc' # "score") =>
            /\ (Len(scored') = Len(scored) + 1) <=> SameIndex
            /\ (Len(Lines(stdout')) = Len(Lines(stdout)) + 1) <=> SameIndex
            /\ IndexMismatch => (error'.at = "sync" /\ pc' = "term_src")]_vars

\* Streams tagged like [1,2,3] and [1,2,4]: two pairs scored, third aborts.
C3_Witness ==
    /\ loopEnd = "sync"
    /\ IndexMismatch
    /\ consumed = [s \in Sides |-> 3]
    /\ Len(scored) = 2
    /\ Len(Lines(stdout)) = 2

\* C4: when main() is left, terminate() has been called on every
\* long-running child that was launched, also when terminating the source
\* child raised.
C4_ChildrenTerminatedAtExit ==
    pc = "exit" => \A s \in Sides : proc[s] # "none" => termCalls[s] >= 1

\* src_proc.terminate() raised and ref_proc.terminate() was still called.
C4_Witness ==
    /\ pc = "exit"
    /\ error.at = "src_proc.terminate"
    /\ termCalls["ref"] = 1
    /\ loopEnd = "save"

Min(a, b) == IF a < b THEN a ELSE b

\* C5: when a stream ends the loop is left without an exception and
\* without another read: after the end of the reference stream the source
\* stream has been read as often as the reference stream, after the end of
\* the source stream the reference frame of that iteration is not scored,
\* and the number of score lines is the smaller of the two frame counts.
C5_CleanEndOfStream ==
    loopEnd \in {"ref_eof", "src_eof"} =>
        /\ pc \in {"term_src", "term_ref", "exit"}
        /\ pc = "term_src" => error = NoError
        /\ error.at \in {"none", "src_proc.terminate", "ref_proc.terminate"}
        /\ loopEnd = "ref_eof" =>
              /\ consumed["ref"] = streamLen["ref"]
              /\ consumed["src"] = consumed["ref"]
        /\ loopEnd = "src_eof" =>
              /\ consumed["src"] = streamLen["src"]
              /\ consumed["ref"] = consumed["src"] + 1
              /\ Len(scored) = consumed["src"]
        /\ Len(Lines(stdout)) = Min(streamLen["ref"], streamLen["src"])
        /\ Len(scored) = Min(streamLen["ref"], streamLen["src"])

\* The source stream ends first, after two scored pairs.
C5_Witness ==
    /\ loopEnd = "src_eof"
    /\ pc = "exit"
    /\ streamLen["src"] = 2
    /\ streamLen["ref"] = 4
    /\ consumed["ref"] = 3
    /\ Len(Lines(stdout)) = 2

\* C6: every state dump is taken from the source setup; the dumps of one
\* diff_state call are at last_good first and at the bad call second; the
\* rendered diff follows the score line of the bad frame in the report.
C6_DumpsFromSourceSetup ==
    /\ \A i \in 1..Len(dumps) :
          /\ dumps[i].setup = "src"
          /\ dumps[i].call_no =
                IF i % 2 = 1 THEN diffCalls[(i + 1) \div 2].ref_call_no
                             ELSE diffCalls[i \div 2].src_call_no
    /\ Len(dumps) <= 2 * Len(diffCalls)
    /\ pc \in {"dump_ref_state", "dump_src_state", "render_diff"} =>
          /\ Last(diffCalls).ref_call_no = last_good
          /\ Last(diffCalls).src_call_no = call_no
          /\ last_good # call_no
    /\ \A j \in 1..Len(stdout) :
          IsDiff(stdout[j]) =>
             /\ j > 1
             /\ IsLine(stdout[j - 1])
             /\ stdout[j - 1].precision < threshold
             /\ stdout[j].ref_state.setup = "src"
             /\ stdout[j].src_state = [setup |-> "src",
                                       call_no |-> stdout[j - 1].call_no]
             /\ \E i \in 1..(j - 2) :
                   /\ IsLine(stdout[i])
                   /\ stdout[i].precision >= threshold
                   /\ stdout[j].ref_state = [setup |-> "src",
                                             call_no |-> stdout[i].call_no]

\* A diff of the source run at calls 10 and 11 follows the line of call 11.
C6_Witness ==
    /\ Len(stdout) = 3
    /\ stdout[2] = ScoreLine(11, threshold - 7)
    /\ IsDiff(stdout[3])
    /\ dumps = <<[setup |-> "src", call_no |-> 10], [setup |-> "src", call_no |-> 11]>>

\* Number of score lines among the flushed part of the report.
FlushedLines == Len(Lines(SubSeq(stdout, 1, flushed)))

\* C7: the report has exactly one line per scored frame, in stream order;
\* whenever a frame is about to be read everything written is flushed, and
\* at any time the lines of all frames before the current one are flushed.
C7_LineFlushedBeforeNextRead ==
    /\ Lines(stdout) = [i \in 1..Len(scored) |->
                           ScoreLine(scored[i].call_no, scored[i].precision)]
    /\ pc \in {"read_ref", "read_src"} => flushed = Len(stdout)
    /\ FlushedLines >= Len(scored) - 1
    /\ (pc \in {"read_ref", "read_src", "score"} \/ loopEnd \in {"read_pnm", "sync", "int"})
          => FlushedLines = Len(scored)

\* A decode failure in the third frame: both earlier lines are flushed.
C7_Witness ==
    /\ loopEnd = "read_pnm"
    /\ pc = "exit"
    /\ Len(scored) = 2
    /\ flushed = Len(stdout)
    /\ FlushedLines = 2

\* The image step of scored frame i has run to completion.
ImagesDone(i) ==
    \/ i < Len(scored)
    \/ i = Len(scored) /\ pc # "save" /\ loopEnd # "save"

Triple(n) == {ImageFile(diff_prefix, n, k) : k \in 1..3}

\* C8: with a non-empty prefix the three image files of a frame exist
\* exactly when the frame is bad, for every bad frame; every file is named
\* by the call number of a bad frame, zero-padded to 10 digits.
C8_ImagesForEveryBadFrame ==
    diff_prefix # "" =>
        /\ \A i \in 1..Len(scored) :
              ImagesDone(i) =>
                 (IsBad(scored[i]) <=> Triple(scored[i].call_no) \subseteq files)
        /\ \A f \in files :
              /\ f.dir = diff_prefix
              /\ Len(f.base) = 10
              /\ \E i \in 1..Len(scored) :
                    /\ IsBad(scored[i])
                    /\ IsNumeral(f.base)
                    /\ ParseInt(f.base) = scored[i].call_no
              /\ \E k \in 1..3 : f.ext = ImageExts[k]

Name11 == <<"0", "0", "0", "0", "0", "0", "0", "0", "1", "1">>

Name13 == <<"0", "0", "0", "0", "0", "0", "0", "0", "1", "3">>

\* Bad frames at 11 and 13, good frames at 10 and 12: two image triples.
C8_Witness ==
    /\ AllTracked
    /\ [i \in 1..Len(scored) |-> scored[i].call_no] = <<10, 11, 12, 13>>
    /\ {f.base : f \in files} = {Name11, Name13}
    /\ Cardinality(files) = 6

RECURSIVE ExpectedLastGood(_)
ExpectedLastGood(s) ==
    IF s = <<>> THEN -1
    ELSE IF IsBad(Last(s)) THEN ExpectedLastGood(SubSeq(s, 1, Len(s) - 1))
    ELSE Last(s).call_no

RECURSIVE ExpectedLastBad(_)
ExpectedLastBad(s) ==
    IF s = <<>> THEN -1
    ELSE IF IsBad(Last(s)) THEN Last(s).call_no
    ELSE ExpectedLastBad(SubSeq(s, 1, Len(s) - 1))

\* C9: with an empty prefix no image file is written, and after every
\* frame the score lines, the diff_state calls and last_good/last_bad are
\* the same function of the scored frames whatever the prefix is.
C9_EmptyPrefixSameReport ==
    /\ diff_prefix = "" => files = {}
    /\ AllTracked =>
          /\ Lines(stdout) = [i \in 1..Len(scored) |->
                                 ScoreLine(scored[i].call_no, scored[i].precision)]
          /\ DiffPairs = ExpectedDiffs(scored)
          /\ \A k \in 1..Len(diffCalls) : diffCalls[k].setup = "src"
          /\ last_good = ExpectedLastGood(scored)
          /\ last_bad = ExpectedLastBad(scored)

\* An empty prefix, two bad frames after a good one, one state diff.
C9_Witness ==
    /\ diff_prefix = ""
    /\ AllTracked
    /\ Len(scored) = 3
    /\ ~IsBad(scored[1]) /\ IsBad(scored[2]) /\ IsBad(scored[3])
    /\ Len(diffCalls) = 1
    /\ files = {}

\* C10: the exception of a desync carries both mismatching call indices.
C10_DesyncReportsBothIndices ==
    (error.at = "sync" /\ IndexMismatch) =>
        error.args = <<IndexOf(ref_comment), IndexOf(src_comment)>>

AllDumpsExited == \A i \in 1..Len(dumpProcs) : dumpProcs[i] = "exited"

\* C11: dump_state returns a state only after its child has exited; a dump
\* child is launched only when every earlier one has exited; no frame is
\* read from a long-running child while a dump child has not exited.
C11_DumpStateSynchronous ==
    /\ [](pc \in {"dump_src_state", "render_diff", "set_bad", "flush",
                   "read_ref", "read_src", "score"} => AllDumpsExited)
    /\ [][/\ Len(dumpProcs') > Len(dumpProcs) => AllDumpsExited
          /\ consumed' # consumed => AllDumpsExited]_vars

\* Both dumps of one state diff have returned, both children have exited.
C11_Witness ==
    /\ pc = "render_diff"
    /\ Len(dumpProcs) = 2
    /\ AllDumpsExited

\* What read_pnm has to return for a snapshot the child wrote.
Decoded(f) ==
    [image |-> [width |-> f.width, height |-> f.height,
                data |-> Pixels(f.width * f.height * 3)],
     comment |-> IF f.tags = <<>> THEN <<>>
                 ELSE IF Len(f.tags) = 1 THEN f.tags[1] \o <<"\n">>
                 ELSE f.tags[1] \o <<"\n">> \o f.tags[2] \o <<"\n">>]

\* Byte offsets at which a snapshot of the stream ends.
FrameEnds == {Len(EncodeFrames(SubSeq(pnFrames, 1, k))) : k \in 0..Len(pnFrames)}

\* C12: read_pnm returns end-of-stream only when nothing at all is left,
\* which happens only for a stream that ends at a snapshot boundary; a
\* stream that ends inside a snapshot ends in a failure; no returned image
\* holds fewer than width*height*3 bytes.
C12_EofOnlyAtFrameBoundary ==
    /\ pnState = "eof" =>
          /\ pnStream = <<>>
          /\ pnCut \in FrameEnds
          /\ pnCut = Len(EncodeFrames(SubSeq(pnFrames, 1, Len(pnOut))))
    /\ (pnState \in {"eof", "failed"} /\ pnCut \notin FrameEnds) => pnState = "failed"
    /\ \A i \in 1..Len(pnOut) :
          Len(pnOut[i].image.data) = pnOut[i].image.width * pnOut[i].image.height * 3

\* The second snapshot lacks pixel bytes: one frame returned, then failure.
C12_Witness ==
    /\ pnState = "failed"
    /\ pnError.at = "frombuffer"
    /\ Len(pnOut) = 1
    /\ pnCut \notin FrameEnds

\* C20: on a stream of complete well-formed snapshots read_pnm returns the
\* snapshots in order, each with its size, pixels and comment, leaves the
\* stream at the start of the next snapshot, and then returns end-of-stream.
C20_FramesInOrderThenEof ==
    (pnCut = Len(EncodeFrames(pnFrames))
        /\ \A i \in 1..Len(pnFrames) : pnFrames[i].maximum = 255) =>
        /\ Len(pnOut) <= Len(pnFrames)
        /\ pnOut = [i \in 1..Len(pnOut) |-> Decoded(pnFrames[i])]
        /\ pnStream = EncodeFrames(SubSeq(pnFrames, Len(pnOut) + 1, Len(pnFrames)))
        /\ pnState # "failed"
        /\ pnState = "eof" => Len(pnOut) = Len(pnFrames)

\* Two snapshots of different size and tag were returned, then end-of-stream.
C20_Witness ==
    /\ pnState = "eof"
    /\ Len(pnOut) = 2
    /\ pnOut[1].image.width # pnOut[2].image.width
    /\ pnOut[1].comment = <<"1", "1", "\n">>
    /\ pnOut[2].comment = <<"7", "\n", "8", "\n">>

\* What a frame can leave behind in main(): the comments, the call number,
\* the report, the image files and the good/bad bookkeeping.
frameEffects == <<ref_comment, src_comment, call_no, stdout, files, last_good,
                  last_bad, tracked, scored, diffCalls>>

\* C13: reading a snapshot whose declared maximum is not 255 raises in
\* read_pnm; no image or comment reaches main(), and from then on no score
\* line, image file or good/bad update is made.
C13_MaximumNot255Fails ==
    /\ [][\A s \in Sides :
             (consumed'[s] = consumed[s] + 1 /\ offered'[s].maximum # 255) =>
                /\ error' = [kind |-> "AssertionError", at |-> "read_pnm", args |-> <<>>]
                /\ loopEnd' = "read_pnm"
                /\ pc' = "term_src"
                /\ UNCHANGED frameEffects]_vars
    /\ [][loopEnd = "read_pnm" => UNCHANGED frameEffects]_vars

\* The second source snapshot declares maximum 127: one line, then abort.
C13_Witness ==
    /\ loopEnd = "read_pnm"
    /\ offered["src"].maximum = 127
    /\ consumed["src"] = 2
    /\ Len(scored) = 1
    /\ pc = "exit"

\* C14: terminate() is called at most once per long-running child, and
\* never on a child that is no longer running.
C14_TerminateOnlyLiveOnce ==
    /\ [](\A s \in Sides : termCalls[s] <= 1)
    /\ [][\A s \in Sides : termCalls'[s] # termCalls[s] => proc[s] = "running"]_vars

DiffIssuedFor(c) == \E k \in 1..Len(diffCalls) : diffCalls[k].src_call_no = c

\* C15: last_good and last_bad start at -1; a good frame c sets last_good
\* to c and keeps last_bad; a bad frame c gets a diff_state(last_good, c)
\* call exactly when last_bad < last_good held before it, then sets
\* last_bad to c, diff or not, and keeps last_good.
C15_TrackerStep ==
    /\ [](pc = "launch_ref" => (last_good = -1 /\ last_bad = -1))
    /\ [][/\ tracked' = tracked => UNCHANGED <<last_good, last_bad>>
          /\ tracked' # tracked =>
                /\ tracked' = tracked + 1
                /\ tracked' = Len(scored)
                /\ IF Last(scored).precision < threshold
                   THEN /\ last_bad' = Last(scored).call_no
                        /\ last_good' = last_good
                        /\ DiffIssuedFor(Last(scored).call_no) <=> last_bad < last_good
                   ELSE /\ last_good' = Last(scored).call_no
                        /\ last_bad' = last_bad
                        /\ ~DiffIssuedFor(Last(scored).call_no)
          /\ diffCalls' # diffCalls =>
                /\ diffCalls' = Append(diffCalls,
                                       [setup |-> "src", ref_call_no |-> last_good,
                                        src_call_no |-> Last(scored).call_no])
                /\ Last(scored).precision < threshold
                /\ last_bad < last_good]_vars

\* Good, bad, bad: one diff, and last_bad is the second bad frame.
C15_Witness ==
    /\ tracked = 3
    /\ Len(scored) = 3
    /\ scored[1].precision >= threshold
    /\ last_good = scored[1].call_no
    /\ last_bad = scored[3].call_no
    /\ last_bad > last_good
    /\ Len(diffCalls) = 1
    /\ diffCalls[1].src_call_no = scored[2].call_no

\* C16: the reference snapshot is read first and the source snapshot
\* second, one read per step, and the reference stream is never more than
\* one snapshot ahead of the source stream and never behind.
C16_AlternatingReads ==
    /\ [](consumed["ref"] - consumed["src"] \in {0, 1})
    /\ [][/\ consumed'["ref"] # consumed["ref"] =>
                /\ pc = "read_ref"
                /\ consumed["ref"] = consumed["src"]
                /\ consumed'["ref"] = consumed["ref"] + 1
                /\ consumed'["src"] = consumed["src"]
          /\ consumed'["src"] # consumed["src"] =>
                /\ pc = "read_src"
                /\ consumed["ref"] = consumed["src"] + 1
                /\ consumed'["src"] = consumed["src"] + 1
                /\ consumed'["ref"] = consumed["ref"]]_vars

\* The third reference snapshot is read, the third source one is not yet.
C16_Witness ==
    /\ pc = "read_src"
    /\ consumed = [s \in Sides |-> IF s = "ref" THEN 3 ELSE 2]

\* C17: a frame is divergent exactly when its score is strictly below the
\* threshold; a score equal to the threshold sets last_good, saves no image
\* and requests no state diff.
C17_EqualThresholdIsGood ==
    /\ tracked >= 1 =>
          /\ scored[tracked].precision < threshold <=> last_bad = scored[tracked].call_no
          /\ scored[tracked].precision >= threshold <=> last_good = scored[tracked].call_no
    /\ \A i \in 1..Len(scored) :
          scored[i].precision >= threshold =>
             /\ \A f \in files : ParseInt(f.base) # scored[i].call_no
             /\ ~DiffIssuedFor(scored[i].call_no)
    /\ \A i \in 1..Len(scored) :
          (scored[i].precision < threshold /\ i <= tracked /\ diff_prefix # "") =>
             \E f \in files : ParseInt(f.base) = scored[i].call_no

\* A frame scored exactly at the threshold after a good one: it is good.
C17_Witness ==
    /\ tracked = 2
    /\ Len(scored) = 2
    /\ scored[2].precision = threshold
    /\ scored[1].precision > threshold
    /\ last_good = scored[2].call_no
    /\ last_bad = -1
    /\ diff_prefix # ""
    /\ files = {}
    /\ diffCalls = <<>>

\* C18 (result): when both streams ended and nothing failed inside the
\* loop, main() is left without an exception and terminate() was called on
\* both children.
C18_NormalCompletion ==
    (pc = "exit" /\ loopEnd \in {"ref_eof", "src_eof"}) =>
        /\ error = NoError
        /\ \A s \in Sides : termCalls[s] >= 1

ScoredCalls == {scored[i].call_no : i \in 1..Len(scored)}

\* C19: no state dump is requested at the initial value -1: the first
\* argument of every diff_state call is the call number of a frame scored
\* good before the bad one, and last_good and last_bad are -1 or the call
\* number of a scored frame.
C19_NoDumpAtSentinel ==
    /\ last_good \in {-1} \cup ScoredCalls
    /\ last_bad \in {-1} \cup ScoredCalls
    /\ \A k \in 1..Len(diffCalls) :
          /\ diffCalls[k].ref_call_no # -1
          /\ \E i, j \in 1..Len(scored) :
                /\ i < j
                /\ scored[i].call_no = diffCalls[k].ref_call_no
                /\ scored[i].precision >= threshold
                /\ scored[j].call_no = diffCalls[k].src_call_no
    /\ \A i \in 1..Len(dumps) : dumps[i].call_no \in ScoredCalls

\* A leading bad frame without a dump, then a state diff from call 10.
C19_Witness ==
    /\ Len(scored) = 3
    /\ scored[1].call_no = 0
    /\ scored[1].precision < threshold
    /\ DiffPairs = <<<<10, 11>>>>
    /\ Len(dumps) = 2
    /\ last_bad = 11
====
